---- MODULE Spec2Model ----
(***************************************************************************)
(* Model of the multi-strategy click resolver (clickWithRetry), the date   *)
(* range selection built on it (selectDateRangeOption) and the two Select2 *)
(* dropdown selection steps of the step-definition layer.                  *)
(*                                                                         *)
(* The browser, the page and the tool transport are the environment: the   *)
(* page is a small DOM abstraction (one target element for the resolver,   *)
(* a list of dropdown containers with their options for the Select2        *)
(* steps), and what the browser answers to a click is a nondeterministic   *)
(* choice among the outcomes the automation engine can produce.            *)
(***************************************************************************)
EXTENDS Integers, Sequences, FiniteSets, TLC

VARIABLES
    \* ---- environment of the click resolver ----
    world,            \* "live" | "uninit" (world.mcpClients.playwright missing) | "down" (callTool rejects)
    browser,          \* "ok" | "crashed" (initBrowser or a page operation throws in the server)
    world0,           \* state of the provider when the call started (history)
    element,          \* what `selector` matches: "absent" | "hidden" | "visible"
    containerVisible, \* whether the dropdown holding the element is shown
    \* ---- clickWithRetry / selectDateRangeOption ----
    pc,               \* position of the call
    caller,           \* "step" (clickWithRetry called directly) | "dateRange"
    optSupplied,      \* options.maxRetries was given
    optMaxRetries,    \* its value when given
    maxRetries,       \* const maxRetries = options.maxRetries || 5
    i,                \* outer loop counter
    sIdx,             \* position in the strategies array (1-based)
    attemptLog,       \* strategy.fn() calls made so far, with outcome
    inFlight,         \* strategy.fn() promises not yet settled
    waits,            \* completed setTimeout(waitBetween) pauses
    waitSupplied,     \* options.waitBetween was given
    optWaitBetween,   \* its value when given
    waitBetween,      \* const waitBetween = options.waitBetween || 500
    slept,            \* milliseconds spent in those pauses
    cwrStatus,        \* "running" | "returned" | "thrown"
    cwrResult,        \* value returned by clickWithRetry
    drStatus,         \* "running" | "returned" | "thrown"
    drResult,         \* value returned by selectDateRangeOption
    \* ---- Select2 steps ----
    containers,       \* '.select2-results, .select2-dropdown' in document order
    options,          \* option-like elements in document order
    step,             \* "none" | "index" | "text"
    optionIndex,      \* {int} argument of the index step
    optionText,       \* {string} argument of the text step
    spc,              \* position of the step
    opened,           \* outcome of the opening script
    events,           \* mouse events dispatched on options, in order
    scriptResult,     \* object returned by selectOptionScript
    stepOutcome,      \* "running" | "passed" | "failed"
    \* ---- inspectElement / inspectElementDetailed / clickRelativeToElement ----
    refEl,            \* what the reference selector matches: <<>> or <<element>>
    rop,              \* the helper called
    rpc,              \* position of the call
    offsetX,          \* arguments of clickRelativeToElement
    offsetY,
    useCenter,
    coordsResult,     \* value returned by calculateRelativeCoordinates
    coordClicks,      \* clickAtCoordinates tool calls issued, in order
    rStatus,          \* "running" | "returned" | "thrown"
    rResult,          \* value returned by the helper
    rCalls,           \* inspect calls made on the selector
    rPrev,            \* value returned by the call before
    \* ---- navigateAndWaitForElement / waitForSelector ----
    nop,              \* the helper called
    npc,              \* position of the call
    timeout,          \* its timeout argument, in milliseconds
    elapsed,          \* Date.now() - startTime, in milliseconds
    polls,            \* queryElements calls made by the loop
    sawVisible,       \* the awaited element was seen visible
    nStatus,          \* "running" | "returned" | "thrown"
    nResult,          \* value returned by the helper
    \* ---- CallToolRequest handler and the caller's parse ----
    tool,             \* request.params.name
    argsGiven,        \* request.params.arguments: "full" | "empty" | "missing"
    tpc,              \* position of the call
    response,         \* what the handler answers
    tStatus,          \* "running" | "returned" | "thrown" on the caller's side
    tResult,          \* what the caller holds after JSON.parse
    \* ---- module-level state of the server and its running calls ----
    sBrowser,         \* let browser: 0 for null, else the browser's id
    sContext,         \* let context: 0 for null, else the id of its browser
    sPage,            \* let page: 0 for null, else the id of its browser
    sFeature,         \* let featureName
    sRunDir,          \* let currentRunDirectory: "null" or the feature name in it
    sRunning,         \* browser processes launched and not closed
    sLaunched,        \* chromium.launch calls that succeeded
    sTask,            \* the calls in progress, one per task
    sCalls,           \* calls started
    sReturns,         \* what initBrowser returned, and the browser referenced then
    sShots,           \* results of the screenshot calls
    sExited,          \* process.exit was called
    \* ---- After hook ----
    hResult,          \* result.status: "none" | "passed" | "failed"
    hClients,         \* the clients present in world.mcpClients
    hPage,            \* this.page and this.context are set
    hPc,              \* position of the hook
    hAttempted,       \* clients whose close() was called
    hPageClose,       \* "no" | "closed" | "failed"
    hContextClose,    \* "no" | "closed" | "failed"
    hStatus           \* "running" | "returned" | "thrown"

clickVars == <<world, world0, element, containerVisible, pc, caller, optSupplied,
               optMaxRetries, maxRetries, i, sIdx, attemptLog, waits,
               waitSupplied, optWaitBetween, waitBetween, slept, inFlight,
               cwrStatus, cwrResult, drStatus, drResult>>
selectVars == <<containers, options, step, optionIndex, optionText, spc, opened,
                events, scriptResult, stepOutcome>>
resolverVars == <<world0, pc, caller, optSupplied, optMaxRetries, maxRetries, i, sIdx,
                  attemptLog, waits, waitSupplied, optWaitBetween, waitBetween, slept,
                  inFlight, cwrStatus, cwrResult, drStatus, drResult>>
inspectVars == <<refEl, rop, rpc, offsetX, offsetY, useCenter, coordsResult,
                 coordClicks, rStatus, rResult, rCalls, rPrev>>
navVars == <<nop, npc, timeout, elapsed, polls, sawVisible, nStatus, nResult>>
callVars == <<tool, argsGiven, tpc, response, tStatus, tResult>>
serverVars == <<sBrowser, sContext, sPage, sFeature, sRunDir, sRunning, sLaunched,
                sTask, sCalls, sReturns, sShots, sExited>>
hookVars == <<hResult, hClients, hPage, hPc, hAttempted, hPageClose, hContextClose,
              hStatus>>
vars == <<world, world0, element, containerVisible, pc, caller, optSupplied,
          optMaxRetries, maxRetries, i, sIdx, attemptLog, waits,
          waitSupplied, optWaitBetween, waitBetween, slept, inFlight,
          cwrStatus, cwrResult, drStatus, drResult,
          containers, options, step, optionIndex, optionText, spc, opened,
          events, scriptResult, stepOutcome,
          refEl, rop, rpc, offsetX, offsetY, useCenter, coordsResult,
          coordClicks, rStatus, rResult, rCalls, rPrev,
          nop, npc, timeout, elapsed, polls, sawVisible, nStatus, nResult,
          tool, argsGiven, tpc, response, tStatus, tResult, browser,
          sBrowser, sContext, sPage, sFeature, sRunDir, sRunning, sLaunched,
          sTask, sCalls, sReturns, sShots, sExited,
          hResult, hClients, hPage, hPc, hAttempted, hPageClose, hContextClose,
          hStatus>>

(***************************************************************************)
(* Bounds                                                                  *)
(***************************************************************************)
MaxRetriesArg == 3      \* largest options.maxRetries a caller passes
MaxOpts == 2            \* option elements in the document
NumContainers == 2      \* dropdown containers in the document

(***************************************************************************)
(* clickWithRetry                                                          *)
(***************************************************************************)
Worlds == {"live", "uninit", "down"}
Elements == {"absent", "hidden", "visible"}

DefaultMaxRetries == 5
DateRangeMaxRetries == 3
DefaultWaitBetween == 500
DateRangeWaitBetween == 300

\* strategies with the forced click tried first
strategiesForceFirst == <<"force-click", "standard-click", "hover-then-click",
                          "js-click", "dispatch-mouse-events">>

strategies == <<"standard-click", "force-click", "hover-then-click",
                "js-click", "dispatch-mouse-events">>

NoResult == [success |-> FALSE, strategy |-> "-"]

\* options.maxRetries || 5 : undefined and 0 are both falsy
EffectiveMaxRetries(supplied, v) ==
    IF supplied /\ v # 0 THEN v ELSE DefaultMaxRetries

\* EffectiveWaitBetween without the default
EffectiveWaitBetweenNoDefault(supplied, v) ==
    IF supplied THEN v ELSE 0

\* options.waitBetween || 500
EffectiveWaitBetween(supplied, v) ==
    IF supplied /\ v # 0 THEN v ELSE DefaultWaitBetween

\* clickElement: throws when the client is missing or callTool rejects;
\* otherwise the server's click() answers {success} without throwing.
clickElement(w, e, force) ==
    IF w # "live" THEN {"throw"}
    ELSE IF e = "absent" THEN {"fail"}
    ELSE IF e = "hidden" THEN (IF force THEN {"ok", "fail"} ELSE {"fail"})
    ELSE {"ok", "fail"}

\* hoverElement: the missing-client check is outside its try block, the
\* callTool is inside: a rejected call becomes {success: false}.
hoverElement(w, e) ==
    IF w = "uninit" THEN {"throw"}
    ELSE IF w = "down" THEN {"fail"}
    ELSE IF e = "visible" THEN {"ok", "fail"}
    ELSE {"fail"}

\* evaluateScript of a script that returns true iff querySelector finds
\* the element; the strategy succeeds iff result.result === true.
evaluateScript(w, e) ==
    IF w # "live" THEN {"throw"}
    ELSE IF e = "absent" THEN {"fail"}
    ELSE {"ok"}

\* strategy.fn() for the strategy at position s
StrategyFn(s, w, e) ==
    CASE s = 1 -> clickElement(w, e, FALSE)
      [] s = 2 -> clickElement(w, e, TRUE)
      [] s = 3 -> {IF h = "throw" THEN "throw" ELSE c :
                     h \in hoverElement(w, e), c \in clickElement(w, e, FALSE)}
      [] s = 4 -> evaluateScript(w, e)
      [] s = 5 -> evaluateScript(w, e)

\* AfterAttempt without the return inside the try block
AfterAttemptNoReturn(outcome, round, s, mr) ==
    IF s < Len(strategies) THEN "nextStrategy"
    ELSE IF round < mr - 1 THEN "wait"
    ELSE "exhausted"

\* AfterAttempt giving up one round early
AfterAttemptEarlyExit(outcome, round, s, mr) ==
    IF outcome = "ok" THEN "return"
    ELSE IF s < Len(strategies) THEN "nextStrategy"
    ELSE IF round < mr - 2 THEN "wait"
    ELSE "exhausted"

\* AfterAttempt with a catch block that rethrows
AfterAttemptRethrow(outcome, round, s, mr) ==
    IF outcome = "ok" THEN "return"
    ELSE IF outcome = "throw" THEN "propagate"
    ELSE IF s < Len(strategies) THEN "nextStrategy"
    ELSE IF round < mr - 1 THEN "wait"
    ELSE "exhausted"

\* What the loop does after one strategy.fn() call: the try block returns
\* on result.success, the catch block and a false result fall through.
AfterAttempt(outcome, round, s, mr) ==
    IF outcome = "ok" THEN "return"
    ELSE IF s < Len(strategies) THEN "nextStrategy"
    ELSE IF round < mr - 1 THEN "wait"
    ELSE "exhausted"

\* The page may re-render while the resolver sleeps; the session may close.
PageChange ==
    /\ \E e \in Elements, cv \in BOOLEAN :
          /\ (e = "visible" => cv)
          /\ element' = e
          /\ containerVisible' = cv
    /\ world' \in (IF world = "live" THEN {"live", "down"} ELSE {world})

\* for (let i = 0; i < maxRetries; i++): entering the loop or falling out
CwrEnter ==
    /\ pc = "start"
    /\ LET mr == EffectiveMaxRetries(optSupplied, optMaxRetries) IN
         /\ maxRetries' = mr
         /\ waitBetween' = EffectiveWaitBetween(waitSupplied, optWaitBetween)
         /\ IF 0 < mr
              THEN /\ pc' = "attempt"
                   /\ UNCHANGED <<cwrStatus, cwrResult>>
              ELSE /\ pc' = "cwrDone"
                   /\ cwrStatus' = "returned"
                   /\ cwrResult' = [success |-> FALSE, strategy |-> "none"]
    /\ i' = 0
    /\ sIdx' = 1
    /\ UNCHANGED <<world, world0, element, containerVisible, caller, optSupplied,
                   optMaxRetries, attemptLog, waits, waitSupplied, optWaitBetween, inFlight,
                   slept, drStatus, drResult>>
    /\ UNCHANGED <<selectVars, inspectVars, navVars, callVars, browser, serverVars, hookVars>>

\* CanStart for a call that is not awaited
CanStartNoAwait(at) == at \in {"attempt", "inflight"}

\* const result = await strategy.fn(): the loop body is suspended until the
\* promise settles, so the next call starts only from the loop itself
CanStart(at) == at = "attempt"

\* strategy.fn() is called inside the try block
CwrStart ==
    /\ CanStart(pc)
    /\ inFlight < Len(strategies)
    /\ inFlight' = inFlight + 1
    /\ pc' = "inflight"
    /\ UNCHANGED <<world, world0, element, containerVisible, caller, optSupplied,
                   optMaxRetries, maxRetries, i, sIdx, attemptLog, waits,
                   waitSupplied, optWaitBetween, waitBetween, slept,
                   cwrStatus, cwrResult, drStatus, drResult>>
    /\ UNCHANGED <<selectVars, inspectVars, navVars, callVars, browser, serverVars, hookVars>>

\* the promise of strategy.fn() settles
CwrAttempt ==
    /\ pc = "inflight"
    /\ inFlight' = inFlight - 1
    /\ \E outcome \in StrategyFn(sIdx, world, element), closes \in BOOLEAN :
         /\ attemptLog' = Append(attemptLog,
                [round |-> i, strategy |-> strategies[sIdx], outcome |-> outcome,
                 matched |-> (element # "absent")])
         /\ IF outcome = "ok" /\ closes
              THEN element' = "hidden" /\ containerVisible' = FALSE
              ELSE UNCHANGED <<element, containerVisible>>
         /\ LET nxt == AfterAttempt(outcome, i, sIdx, maxRetries) IN
              CASE nxt = "return" ->
                     /\ pc' = "cwrDone"
                     /\ cwrStatus' = "returned"
                     /\ cwrResult' = [success |-> TRUE, strategy |-> strategies[sIdx]]
                     /\ UNCHANGED <<i, sIdx>>
                [] nxt = "nextStrategy" ->
                     /\ pc' = "attempt"
                     /\ sIdx' = sIdx + 1
                     /\ UNCHANGED <<i, cwrStatus, cwrResult>>
                [] nxt = "wait" ->
                     /\ pc' = "wait"
                     /\ UNCHANGED <<i, sIdx, cwrStatus, cwrResult>>
                [] nxt = "exhausted" ->
                     /\ pc' = "cwrDone"
                     /\ i' = i + 1
                     /\ cwrStatus' = "returned"
                     /\ cwrResult' = [success |-> FALSE, strategy |-> "none"]
                     /\ UNCHANGED sIdx
                [] nxt = "propagate" ->   \* an exception leaving the function
                     /\ pc' = "cwrDone"
                     /\ cwrStatus' = "thrown"
                     /\ UNCHANGED <<i, sIdx, cwrResult>>
    /\ UNCHANGED <<world, world0, caller, optSupplied, optMaxRetries, maxRetries,
                   waits, waitSupplied, optWaitBetween, waitBetween, slept,
                   drStatus, drResult>>
    /\ UNCHANGED <<selectVars, inspectVars, navVars, callVars, browser, serverVars, hookVars>>

\* await new Promise(resolve => setTimeout(resolve, waitBetween)); i++
CwrWait ==
    /\ pc = "wait"
    /\ PageChange
    /\ waits' = waits + 1
    /\ slept' = slept + waitBetween
    /\ i' = i + 1
    /\ sIdx' = 1
    /\ pc' = "attempt"
    /\ UNCHANGED <<world0, caller, optSupplied, optMaxRetries, maxRetries,
                   attemptLog, waitSupplied, optWaitBetween, waitBetween, inFlight,
                   cwrStatus, cwrResult, drStatus, drResult>>
    /\ UNCHANGED <<selectVars, inspectVars, navVars, callVars, browser, serverVars, hookVars>>

\* isElementVisible -> queryElements: throws without a client or transport;
\* otherwise count > 0 && some element visible
isElementVisible(w, e) ==
    IF w # "live" THEN "throw"
    ELSE IF e = "visible" THEN "true" ELSE "false"

\* selectDateRangeOption after clickWithRetry returned
DateRangeVerify ==
    /\ pc = "cwrDone"
    /\ caller = "dateRange"
    /\ LET stillVisible == isElementVisible(world, element) IN
         IF stillVisible = "throw"
           THEN /\ drStatus' = "thrown"
                /\ UNCHANGED drResult
           ELSE /\ drStatus' = "returned"
                /\ drResult' = [success |-> (stillVisible = "false"),
                                strategy |-> cwrResult.strategy]
    /\ pc' = "done"
    /\ UNCHANGED <<world, world0, element, containerVisible, caller, optSupplied,
                   optMaxRetries, maxRetries, i, sIdx, attemptLog, waits,
                   waitSupplied, optWaitBetween, waitBetween, slept, inFlight,
                   cwrStatus, cwrResult>>
    /\ UNCHANGED <<selectVars, inspectVars, navVars, callVars, browser, serverVars, hookVars>>

NoValue == [success |-> FALSE]

InspectIdle ==
    /\ refEl = <<>>
    /\ rop = "none"
    /\ rpc = "idle"
    /\ offsetX = 0
    /\ offsetY = 0
    /\ useCenter = TRUE
    /\ coordsResult = NoValue
    /\ coordClicks = <<>>
    /\ rStatus = "running"
    /\ rResult = NoValue
    /\ rCalls = 0
    /\ rPrev = NoValue

NavIdle ==
    /\ nop = "none"
    /\ npc = "idle"
    /\ timeout = 0
    /\ elapsed = 0
    /\ polls = 0
    /\ sawVisible = FALSE
    /\ nStatus = "running"
    /\ nResult = NoValue

CallIdle ==
    /\ tool = "none"
    /\ argsGiven = "full"
    /\ tpc = "idle"
    /\ response = NoValue
    /\ tStatus = "running"
    /\ tResult = NoValue

DefaultFeatureName == "test"
Tasks == {1, 2}
IdleTask == [op |-> "none", pc |-> "idle", target |-> 0]

ServerIdle ==
    /\ sBrowser = 0
    /\ sContext = 0
    /\ sPage = 0
    /\ sFeature = DefaultFeatureName
    /\ sRunDir = "null"
    /\ sRunning = {}
    /\ sLaunched = 0
    /\ sTask = [t \in Tasks |-> IdleTask]
    /\ sCalls = 0
    /\ sReturns = <<>>
    /\ sShots = <<>>
    /\ sExited = FALSE

HookIdle ==
    /\ hResult = "none"
    /\ hClients = {}
    /\ hPage = FALSE
    /\ hPc = "idle"
    /\ hAttempted = {}
    /\ hPageClose = "no"
    /\ hContextClose = "no"
    /\ hStatus = "running"

SelectIdle ==
    /\ containers = <<>>
    /\ options = <<>>
    /\ step = "none"
    /\ optionIndex = 0
    /\ optionText = <<>>
    /\ spc = "idle"
    /\ opened = "-"
    /\ events = <<>>
    /\ scriptResult = "-"
    /\ stepOutcome = "running"

InitClick ==
    /\ world \in Worlds
    /\ world0 = world
    /\ element \in Elements
    /\ containerVisible \in BOOLEAN
    /\ (element = "visible" => containerVisible)
    /\ pc = "start"
    /\ \/ /\ caller = "step"
          /\ optSupplied \in BOOLEAN
          /\ optMaxRetries \in 0..MaxRetriesArg
          /\ (~optSupplied => optMaxRetries = 0)
          /\ waitSupplied \in BOOLEAN
          /\ optWaitBetween \in {0, DateRangeWaitBetween}
          /\ (~waitSupplied => optWaitBetween = 0)
       \/ /\ caller = "dateRange"
          /\ optSupplied = TRUE
          /\ optMaxRetries = DateRangeMaxRetries
          /\ waitSupplied = TRUE
          /\ optWaitBetween = DateRangeWaitBetween
    /\ maxRetries = 0
    /\ waitBetween = 0
    /\ slept = 0
    /\ i = 0
    /\ sIdx = 1
    /\ attemptLog = <<>>
    /\ inFlight = 0
    /\ waits = 0
    /\ cwrStatus = "running"
    /\ cwrResult = NoResult
    /\ drStatus = "running"
    /\ drResult = NoResult
    /\ browser = "ok"
    /\ SelectIdle
    /\ InspectIdle
    /\ NavIdle
    /\ CallIdle
    /\ ServerIdle
    /\ HookIdle

NextClick == CwrEnter \/ CwrStart \/ CwrAttempt \/ CwrWait \/ DateRangeVerify

SpecClick == InitClick /\ [][NextClick]_vars

(***************************************************************************)
(* Select2 steps: the page                                                 *)
(***************************************************************************)
\* textContent values, one character per element ("U+2026" is the
\* horizontal ellipsis character)
OptionA == <<"O", "p", "t", "i", "o", "n", " ", "A">>
OptionB == <<"O", "p", "t", "i", "o", "n", " ", "B">>
OptionBPadded == <<" ", "O", "p", "t", "i", "o", "n", " ", "B", " ">>
Option == <<"O", "p", "t", "i", "o", "n">>
Nope == <<"Z", "e", "d">>
LoadingResults == <<"L", "o", "a", "d", "i", "n", "g", " ", "r", "e", "s", "u", "l", "t", "s", "U+2026">>
NoResultsFound == <<"N", "o", " ", "r", "e", "s", "u", "l", "t", "s", " ", "f", "o", "u", "n", "d">>
SelectDots == <<"S", "e", "l", "e", "c", "t", ".", ".", ".">>
PleaseSelect == <<"P", "l", "e", "a", "s", "e", " ", "s", "e", "l", "e", "c", "t", ".", ".", ".">>
DashSelect == <<"-", "-", " ", "S", "e", "l", "e", "c", "t", " ", "-", "-">>
EmptyText == <<>>

Sentinels == {LoadingResults, NoResultsFound, SelectDots, DashSelect, EmptyText}

\* String.prototype.trim on the texts of the model (blanks only)
RECURSIVE TrimLeft(_)
TrimLeft(t) == IF t # <<>> /\ Head(t) = " " THEN TrimLeft(Tail(t)) ELSE t

RECURSIVE TrimRight(_)
TrimRight(t) ==
    IF t # <<>> /\ t[Len(t)] = " " THEN TrimRight(SubSeq(t, 1, Len(t) - 1)) ELSE t

Trim(t) == TrimRight(TrimLeft(t))

\* String.prototype.includes
Includes(t, sub) ==
    \E k \in 1..(Len(t) - Len(sub) + 1) : SubSeq(t, k, k + Len(sub) - 1) = sub

MessageClass == "select2-results__message"
LoadingClass == "loading-results"

\* Option-like elements a page may hold: matched by
\* '.select2-results__option, li[role="option"], li[role="treeitem"]'.
\* visible stands for offsetParent !== null; ariaDisabled "absent" for a
\* missing attribute.
OptionKinds == {
    [text |-> OptionA, visible |-> TRUE, role |-> "option", ariaDisabled |-> "absent", classes |-> {}],
    [text |-> OptionBPadded, visible |-> TRUE, role |-> "treeitem", ariaDisabled |-> "false", classes |-> {}],
    [text |-> Option, visible |-> TRUE, role |-> "option", ariaDisabled |-> "absent", classes |-> {}],
    [text |-> LoadingResults, visible |-> TRUE, role |-> "option", ariaDisabled |-> "absent", classes |-> {}],
    [text |-> SelectDots, visible |-> TRUE, role |-> "option", ariaDisabled |-> "absent", classes |-> {}],
    [text |-> EmptyText, visible |-> TRUE, role |-> "option", ariaDisabled |-> "absent", classes |-> {}],
    [text |-> NoResultsFound, visible |-> TRUE, role |-> "option", ariaDisabled |-> "absent", classes |-> {MessageClass}],
    [text |-> OptionA, visible |-> TRUE, role |-> "option", ariaDisabled |-> "true", classes |-> {}],
    [text |-> OptionB, visible |-> FALSE, role |-> "option", ariaDisabled |-> "absent", classes |-> {}],
    [text |-> OptionA, visible |-> TRUE, role |-> "none", ariaDisabled |-> "absent", classes |-> {}] }

\* an option element inside container c
InContainer(kind, c) ==
    [text |-> kind.text, visible |-> kind.visible, role |-> kind.role,
     ariaDisabled |-> kind.ariaDisabled, classes |-> kind.classes, c |-> c]

\* '.select2-results, .select2-dropdown' elements: offsetParent !== null,
\* and the computed z-index ("auto" or a number). The z-index of a
\* container that is not visible is never read by the scripts: one value
\* (the highest) stands for all.
ZValues == {5, 10}

ContainerKinds ==
    {[visible |-> TRUE, zAuto |-> TRUE, z |-> 0]}
    \cup {[visible |-> TRUE, zAuto |-> FALSE, z |-> n] : n \in ZValues}
    \cup {[visible |-> FALSE, zAuto |-> FALSE, z |-> 10]}

SeqsUpTo(S, n) == UNION {[1..m -> S] : m \in 0..n}

\* Documents: containers in document order, the options of an earlier
\* container before those of a later one; nothing inside a container that
\* is not rendered has an offsetParent.
WellFormedPage(cs, os) ==
    /\ \A k \in 1..Len(os) :
          /\ os[k].c \in 1..Len(cs)
          /\ os[k].visible => cs[os[k].c].visible
    /\ \A k \in 1..(Len(os) - 1) : os[k].c <= os[k + 1].c

InitPage ==
    /\ containers \in SeqsUpTo(ContainerKinds, NumContainers)
    /\ options \in SeqsUpTo({InContainer(kd, c) : kd \in OptionKinds,
                                                 c \in 1..Len(containers)}, MaxOpts)
    /\ WellFormedPage(containers, options)

ResolverIdle ==
    /\ world0 = world
    /\ pc = "idle"
    /\ caller = "none"
    /\ optSupplied = FALSE
    /\ optMaxRetries = 0
    /\ maxRetries = 0
    /\ i = 0
    /\ sIdx = 1
    /\ attemptLog = <<>>
    /\ inFlight = 0
    /\ waits = 0
    /\ waitSupplied = FALSE
    /\ optWaitBetween = 0
    /\ waitBetween = 0
    /\ slept = 0
    /\ cwrStatus = "running"
    /\ cwrResult = NoResult
    /\ drStatus = "running"
    /\ drResult = NoResult

ClickIdle ==
    /\ world = "live"
    /\ element = "absent"
    /\ containerVisible = FALSE
    /\ browser = "ok"
    /\ ResolverIdle
    /\ ServerIdle
    /\ HookIdle
    /\ InspectIdle
    /\ NavIdle
    /\ CallIdle

(***************************************************************************)
(* Select2 steps: the selection scripts                                    *)
(***************************************************************************)
\* parseInt(getComputedStyle(container).zIndex) || 0
ZIndex(cont) == IF cont.zAuto THEN 0 ELSE cont.z

\* containers.forEach(...): the visible container whose z-index is
\* strictly above every earlier one; 0 stands for null
RECURSIVE TopScan(_, _, _, _)
TopScan(cs, k, top, maxZIndex) ==
    IF k > Len(cs) THEN top
    ELSE IF cs[k].visible /\ ZIndex(cs[k]) > maxZIndex
           THEN TopScan(cs, k + 1, k, ZIndex(cs[k]))
           ELSE TopScan(cs, k + 1, top, maxZIndex)

\* containers.find(c => c.offsetParent !== null) || containers[length - 1]
FirstVisibleOrLast(cs) ==
    IF \E k \in 1..Len(cs) : cs[k].visible
      THEN CHOOSE k \in 1..Len(cs) :
              cs[k].visible /\ \A j \in 1..(k - 1) : ~cs[j].visible
      ELSE Len(cs)

topContainer(cs) ==
    LET scanned == TopScan(cs, 1, 0, -1) IN
      IF scanned = 0 /\ Len(cs) > 0 THEN FirstVisibleOrLast(cs) ELSE scanned

\* positions (document order) of the option elements
DocOrder(os) == [k \in 1..Len(os) |-> k]

\* topContainer.querySelectorAll(...)
OptionsIn(os, top) == SelectSeq(DocOrder(os), LAMBDA k : os[k].c = top)

\* the filter of the index-based step
IsValidIndexOption(opt) ==
    LET isVisible == opt.visible
        hasRole == opt.role = "option" \/ opt.role = "treeitem"
        notDisabled == opt.ariaDisabled = "absent" \/ opt.ariaDisabled = "false"
        notMessage == MessageClass \notin opt.classes
        notLoading == LoadingClass \notin opt.classes
        text == Trim(opt.text)
        hasText == text # <<>> /\ text # NoResultsFound /\ text # LoadingResults
        notPlaceholder == text # SelectDots /\ text # PleaseSelect /\ text # DashSelect
    IN isVisible /\ hasRole /\ notDisabled /\ notMessage /\ notLoading
         /\ hasText /\ notPlaceholder

\* the filter of the text-based step
IsValidTextOption(opt) ==
    LET isVisible == opt.visible
        hasRole == opt.role = "option" \/ opt.role = "treeitem"
        notDisabled == opt.ariaDisabled = "absent" \/ opt.ariaDisabled = "false"
        notMessage == MessageClass \notin opt.classes
        notLoading == LoadingClass \notin opt.classes
        hasText == Trim(opt.text) # <<>> /\ Trim(opt.text) # NoResultsFound
    IN isVisible /\ hasRole /\ notDisabled /\ notMessage /\ notLoading /\ hasText

\* validOptions of the index-based step, as document positions
ValidIndexOptions(os, top) ==
    SelectSeq(OptionsIn(os, top), LAMBDA k : IsValidIndexOption(os[k]))

\* validOptions of the text-based step: the whole document is searched
ValidTextOptions(os) ==
    SelectSeq(DocOrder(os), LAMBDA k : IsValidTextOption(os[k]))

\* Array.prototype.find yields the first match; 0 stands for undefined
FirstOf(matches) == IF matches = <<>> THEN 0 ELSE matches[1]

\* IndexTarget indexing the unfiltered option list
IndexTargetRaw(os, top, index) ==
    LET allOptions == OptionsIn(os, top)
        targetIndex == index - 1
    IN IF Len(allOptions) > targetIndex /\ targetIndex >= 0
         THEN allOptions[targetIndex + 1]
         ELSE 0

\* the option the index-based script acts on; 0 when the index is out of range
IndexTarget(os, top, index) ==
    LET validOptions == ValidIndexOptions(os, top)
        targetIndex == index - 1
    IN IF Len(validOptions) > targetIndex /\ targetIndex >= 0
         THEN validOptions[targetIndex + 1]
         ELSE 0

\* TextTarget trying the partial match before the exact one
TextTargetPartialFirst(os, wanted) ==
    LET validOptions == ValidTextOptions(os)
        exact == FirstOf(SelectSeq(validOptions,
                     LAMBDA k : Trim(os[k].text) = wanted))
        partial == FirstOf(SelectSeq(validOptions,
                     LAMBDA k : Includes(Trim(os[k].text), wanted)))
    IN IF partial # 0 THEN partial
       ELSE IF exact # 0 THEN exact
       ELSE IF Len(validOptions) > 0 THEN validOptions[1]
       ELSE 0

\* the option the text-based script acts on: exact match, then partial
\* match, then the first valid option; 0 when there is no valid option
TextTarget(os, wanted) ==
    LET validOptions == ValidTextOptions(os)
        exact == FirstOf(SelectSeq(validOptions,
                     LAMBDA k : Trim(os[k].text) = wanted))
        partial == FirstOf(SelectSeq(validOptions,
                     LAMBDA k : Includes(Trim(os[k].text), wanted)))
    IN IF exact # 0 THEN exact
       ELSE IF partial # 0 THEN partial
       ELSE IF Len(validOptions) > 0 THEN validOptions[1]
       ELSE 0

\* events the index-based script dispatches on the chosen option
IndexEvents(target) ==
    <<[type |-> "mousedown", target |-> target, bubbles |-> TRUE, cancelable |-> TRUE],
      [type |-> "mouseup", target |-> target, bubbles |-> TRUE, cancelable |-> TRUE],
      [type |-> "click", target |-> target, bubbles |-> TRUE, cancelable |-> TRUE]>>

\* option.click() of the text-based script: HTMLElement.click() fires one
\* click event (bubbling, cancelable) and no mousedown or mouseup
TextEvents(target) ==
    <<[type |-> "click", target |-> target, bubbles |-> TRUE, cancelable |-> TRUE]>>

\* line 1404: the step throws when the script's own result says failure
IndexStepThrows(envelopeOk, scriptOk) == envelopeOk /\ ~scriptOk

\* line 1091: the step throws when the evaluateScript envelope says failure
TextStepThrows(envelopeOk, scriptOk) == ~envelopeOk

\* The widget's reaction to the events: it closes the dropdown that holds
\* the option, or it does not.
WidgetReacts(target, closes) ==
    IF closes
      THEN LET c == options[target].c IN
             /\ containers' = [containers EXCEPT ![c].visible = FALSE]
             /\ options' = [k \in 1..Len(options) |->
                              IF options[k].c = c
                                THEN [options[k] EXCEPT !.visible = FALSE]
                                ELSE options[k]]
      ELSE UNCHANGED <<containers, options>>

(***************************************************************************)
(* 'I select option {int} from Select2 dropdown labeled {string}'          *)
(***************************************************************************)
\* clickSelect2Script and the check after it
IndexOpen ==
    /\ step = "index"
    /\ spc = "open"
    /\ \E outcome \in {"labelNotFound", "noVisibleSelection", "clicked"} :
         /\ opened' = outcome
         /\ IF outcome = "clicked"
              THEN spc' = "select" /\ UNCHANGED stepOutcome
              ELSE spc' = "done" /\ stepOutcome' = "failed"
    /\ UNCHANGED <<containers, options, step, optionIndex, optionText, events,
                   scriptResult>>
    /\ UNCHANGED <<clickVars, inspectVars, navVars, callVars, browser, serverVars, hookVars>>

\* selectOptionScript and the check after it
IndexSelect ==
    /\ step = "index"
    /\ spc = "select"
    /\ \E envelopeOk \in BOOLEAN, closes \in BOOLEAN :
         LET top == topContainer(containers)
             target == IF top = 0 THEN 0 ELSE IndexTarget(options, top, optionIndex)
             scriptOk == envelopeOk /\ target # 0
         IN /\ IF scriptOk
                 THEN /\ events' = events \o IndexEvents(target)
                      /\ WidgetReacts(target, closes)
                 ELSE /\ closes = FALSE
                      /\ UNCHANGED <<events, containers, options>>
            /\ scriptResult' = IF ~envelopeOk THEN "evaluateFailed"
                               ELSE IF top = 0 THEN "noContainer"
                               ELSE IF target = 0 THEN "outOfRange"
                               ELSE "selected"
            /\ stepOutcome' = IF IndexStepThrows(envelopeOk, scriptOk)
                                THEN "failed" ELSE "passed"
    /\ spc' = "done"
    /\ UNCHANGED <<step, optionIndex, optionText, opened>>
    /\ UNCHANGED <<clickVars, inspectVars, navVars, callVars, browser, serverVars, hookVars>>

InitIndex ==
    /\ ClickIdle
    /\ InitPage
    /\ step = "index"
    /\ optionIndex \in 0..(MaxOpts + 1)
    /\ optionText = <<>>
    /\ spc = "open"
    /\ opened = "-"
    /\ events = <<>>
    /\ scriptResult = "-"
    /\ stepOutcome = "running"

NextIndex == IndexOpen \/ IndexSelect

SpecIndex == InitIndex /\ [][NextIndex]_vars

(***************************************************************************)
(* 'I select {string} from Select2 dropdown labeled {string}'              *)
(***************************************************************************)
\* clickArrowScript: its result is attached to the report, nothing else
TextOpen ==
    /\ step = "text"
    /\ spc = "open"
    /\ opened' \in {"labelNotFound", "arrowNotFound", "clicked"}
    /\ spc' = "select"
    /\ UNCHANGED <<containers, options, step, optionIndex, optionText, events,
                   scriptResult, stepOutcome>>
    /\ UNCHANGED <<clickVars, inspectVars, navVars, callVars, browser, serverVars, hookVars>>

\* selectOptionScript and the check after it
TextSelect ==
    /\ step = "text"
    /\ spc = "select"
    /\ \E envelopeOk \in BOOLEAN, closes \in BOOLEAN :
         LET target == TextTarget(options, optionText)
             scriptOk == envelopeOk /\ target # 0
         IN /\ IF scriptOk
                 THEN /\ events' = events \o TextEvents(target)
                      /\ WidgetReacts(target, closes)
                 ELSE /\ closes = FALSE
                      /\ UNCHANGED <<events, containers, options>>
            /\ scriptResult' = IF ~envelopeOk THEN "evaluateFailed"
                               ELSE IF target = 0 THEN "noValidOptions"
                               ELSE "selected"
            /\ stepOutcome' = IF TextStepThrows(envelopeOk, scriptOk)
                                THEN "failed" ELSE "passed"
    /\ spc' = "done"
    /\ UNCHANGED <<step, optionIndex, optionText, opened>>
    /\ UNCHANGED <<clickVars, inspectVars, navVars, callVars, browser, serverVars, hookVars>>

TextTargets == {OptionA, Option, Nope}

InitText ==
    /\ ClickIdle
    /\ InitPage
    /\ step = "text"
    /\ optionIndex = 0
    /\ optionText \in TextTargets
    /\ spc = "open"
    /\ opened = "-"
    /\ events = <<>>
    /\ scriptResult = "-"
    /\ stepOutcome = "running"

NextText == TextOpen \/ TextSelect

SpecText == InitText /\ [][NextText]_vars

(***************************************************************************)
(* Properties of clickWithRetry                                            *)
(***************************************************************************)
NoSuccessLogged == \A k \in 1..Len(attemptLog) : attemptLog[k].outcome # "ok"

\* C2: once a strategy attempt reports success, clickWithRetry returns at
\* once with that strategy: the successful attempt is the last one made, no
\* later strategy and no later round follows it.
C2_FirstSuccessReturns ==
    \A k \in 1..Len(attemptLog) :
        attemptLog[k].outcome = "ok" =>
            /\ k = Len(attemptLog)
            /\ cwrStatus = "returned"
            /\ cwrResult = [success |-> TRUE, strategy |-> attemptLog[k].strategy]

\* the first strategy of the first round succeeded and nothing else was tried
C2_Witness ==
    /\ cwrStatus = "returned"
    /\ cwrResult = [success |-> TRUE, strategy |-> "standard-click"]
    /\ Len(attemptLog) = 1

\* C3: an attempt on a selector that matches nothing never succeeds, and
\* when no attempt succeeded clickWithRetry returns {success: false,
\* strategy: "none"} only after all five strategies were attempted, in
\* order, in every one of the maxRetries rounds (at least the rounds asked
\* for); "none" is returned in no other case.
C3_ExhaustionReturnsNone ==
    /\ \A k \in 1..Len(attemptLog) :
          ~attemptLog[k].matched => attemptLog[k].outcome # "ok"
    /\ cwrStatus = "returned" =>
         /\ (cwrResult.strategy = "none") = NoSuccessLogged
         /\ NoSuccessLogged =>
              /\ cwrResult = [success |-> FALSE, strategy |-> "none"]
              /\ optSupplied => maxRetries >= optMaxRetries
              /\ Len(attemptLog) = Len(strategies) * maxRetries
              /\ \A r \in 0..(maxRetries - 1), s \in 1..Len(strategies) :
                    LET a == attemptLog[Len(strategies) * r + s] IN
                      a.round = r /\ a.strategy = strategies[s]

\* a live provider, a selector that never matched, two rounds asked for
C3_Witness ==
    /\ cwrStatus = "returned"
    /\ cwrResult.strategy = "none"
    /\ world0 = "live"
    /\ optSupplied /\ optMaxRetries = 2
    /\ Len(attemptLog) = 10
    /\ \A k \in 1..Len(attemptLog) : ~attemptLog[k].matched

\* C4 (as claimed): the rounds performed never exceed the maxRetries the
\* caller supplied, so at most maxRetries x 5 attempts are made.
C4_RoundsWithinSupplied ==
    optSupplied =>
        /\ Len(attemptLog) <= Len(strategies) * optMaxRetries
        /\ \A k \in 1..Len(attemptLog) : attemptLog[k].round < optMaxRetries

\* C5 (as claimed): when the provider is not initialized or unreachable the
\* call throws at the first provider access: nothing further is attempted
\* and no result object is returned.
C5_ProviderFailureThrows ==
    world0 # "live" =>
        /\ Len(attemptLog) <= 1
        /\ cwrStatus # "returned"

(***************************************************************************)
(* Properties of the Select2 steps                                         *)
(***************************************************************************)
\* the option the latest events were dispatched on
Acted(evs) == evs[Len(evs)].target

\* C1 (as claimed): a selection step that dispatched on an option and then
\* completed normally has left the dropdown container of that option
\* invisible; a container still visible makes the step fail.
C1_SuccessMeansClosed ==
    (stepOutcome = "passed" /\ events # <<>>) =>
        ~containers[options[Acted(events)].c].visible

\* C6: the index-based step acts on the option that is the optionIndex-th,
\* in document order, among the options of the active container that pass
\* the validity filter; that option is visible, carries an option role, is
\* not disabled and its trimmed text is no sentinel, so entries that are
\* not valid never shift the index of the real options.
C6_IndexCountsValidOnly ==
    [][events' # events =>
         LET t == Acted(events')
             top == topContainer(containers)
         IN /\ events' = events \o IndexEvents(t)
            /\ options[t].c = top
            /\ options[t].visible
            /\ options[t].role \in {"option", "treeitem"}
            /\ options[t].ariaDisabled # "true"
            /\ Trim(options[t].text) \notin Sentinels
            /\ Cardinality({k \in 1..t : options[k].c = top
                                          /\ IsValidIndexOption(options[k])})
                 = optionIndex]_vars

\* index 1 over ["Loading results...", "Option A"] acted on "Option A"
C6_Witness ==
    /\ step = "index"
    /\ stepOutcome = "passed"
    /\ optionIndex = 1
    /\ Len(options) = 2
    /\ options[1].text = LoadingResults
    /\ options[2].text = OptionA
    /\ options[1].c = options[2].c
    /\ events = IndexEvents(2)

\* C7 (as claimed): the container the index-based step acts in is visible,
\* no visible container has a higher z-index, and no visible container
\* with the same z-index comes later in the document.
C7_TopmostTieBreakLast ==
    [][events' # events =>
         LET c == options[Acted(events')].c IN
           /\ containers[c].visible
           /\ \A j \in 1..Len(containers) :
                 containers[j].visible =>
                    \/ ZIndex(containers[j]) < ZIndex(containers[c])
                    \/ ZIndex(containers[j]) = ZIndex(containers[c]) /\ j <= c]_vars

\* C8 (as claimed): once the dropdown was opened, a selection acts only
\* inside the topmost container: no visible container has a higher z-index
\* than the one holding the option the events are dispatched on.
C8_ActsInTopmostOnly ==
    [][(opened = "clicked" /\ events' # events) =>
         LET c == options[Acted(events')].c IN
           \A j \in 1..Len(containers) :
              containers[j].visible =>
                 ZIndex(containers[j]) <= ZIndex(containers[c])]_vars

\* C9 (as claimed): once the dropdown was opened, no event is ever
\* dispatched on an option whose trimmed text is one of the reserved
\* sentinels.
C9_SentinelNeverActedOn ==
    opened = "clicked" =>
        \A k \in 1..Len(events) :
            Trim(options[events[k].target].text) \notin Sentinels

\* C10 (as claimed): when the dropdown was opened and the script could not
\* resolve the target to a valid option, nothing was dispatched and the
\* step ended in failure.
C10_UnresolvedTargetFails ==
    (/\ spc = "done"
     /\ opened = "clicked"
     /\ scriptResult \in {"outOfRange", "noContainer", "noValidOptions"}) =>
        /\ events = <<>>
        /\ stepOutcome = "failed"

\* the least element of a non-empty set of document positions
First(S) == CHOOSE k \in S : \A j \in S : k <= j

\* C11: the text-based step resolves its target over the options that pass
\* its filter in this order: the first option whose trimmed text equals the
\* wanted text whenever there is one (even behind an option that merely
\* contains it); otherwise the first option, in document order, whose text
\* contains the wanted text; otherwise the first option that passed.
C11_ExactThenPartialThenFirst ==
    [][events' # events =>
         LET t == Acted(events')
             V == {k \in 1..Len(options) : IsValidTextOption(options[k])}
             E == {k \in V : Trim(options[k].text) = optionText}
             S == {k \in V : Includes(Trim(options[k].text), optionText)}
         IN /\ t \in V
            /\ E # {} => t = First(E)
            /\ (E = {} /\ S # {}) => t = First(S)
            /\ (E = {} /\ S = {}) => t = First(V)]_vars

\* "Option" wanted over ["Option A", "Option"]: the exact match behind the
\* partial match was clicked
C11_Witness ==
    /\ step = "text"
    /\ stepOutcome = "passed"
    /\ optionText = Option
    /\ Len(options) = 2
    /\ options[1].text = OptionA /\ options[1].role = "option"
    /\ options[1].ariaDisabled = "absent"
    /\ options[2].text = Option
    /\ events = TextEvents(2)

\* C12 (as claimed): once the dropdown was opened, whatever a Select2 step
\* dispatched on an option is the triplet mousedown, mouseup, click on that
\* option, in this order, each bubbling and cancelable.
C12_FullTriplet ==
    (opened = "clicked" /\ events # <<>>) =>
        /\ Len(events) = 3
        /\ events[1].type = "mousedown"
        /\ events[2].type = "mouseup"
        /\ events[3].type = "click"
        /\ \A k \in 1..3 : /\ events[k].target = events[1].target
                           /\ events[k].bubbles
                           /\ events[k].cancelable

(***************************************************************************)
(* C15: in every round the strategies are attempted in the fixed order     *)
(* standard click, force click, hover-then-click, JS click, synthetic      *)
(* mouse events; an attempt is made only after every attempt before it,    *)
(* in its round and in the rounds before, failed.                          *)
(***************************************************************************)
FixedOrder == <<"standard-click", "force-click", "hover-then-click",
                "js-click", "dispatch-mouse-events">>

C15_FixedStrategyOrder ==
    \A k \in 1..Len(attemptLog) :
        /\ attemptLog[k].strategy = FixedOrder[((k - 1) % 5) + 1]
        /\ attemptLog[k].round = (k - 1) \div 5
        /\ \A j \in 1..(k - 1) : attemptLog[j].outcome # "ok"

C15_Witness ==
    /\ Len(attemptLog) = 7
    /\ attemptLog[6].round = 1
    /\ attemptLog[6].strategy = "standard-click"
    /\ attemptLog[7].strategy = "force-click"
    /\ attemptLog[7].outcome = "ok"

(***************************************************************************)
(* C16: a strategy attempt that throws has the same continuation as one    *)
(* that reports failure: the next strategy of the round, else the wait     *)
(* before the next round, else the failure result after the last round.    *)
(* No exception leaves clickWithRetry.                                     *)
(***************************************************************************)
C16_ThrowIsFailure ==
    [][(Len(attemptLog') = Len(attemptLog) + 1
          /\ attemptLog'[Len(attemptLog')].outcome \in {"throw", "fail"}) =>
         /\ cwrStatus' # "thrown"
         /\ sIdx < 5 => (pc' = "attempt" /\ sIdx' = sIdx + 1 /\ i' = i)
         /\ (sIdx = 5 /\ i < maxRetries - 1) => pc' = "wait"
         /\ (sIdx = 5 /\ i >= maxRetries - 1) =>
                (pc' = "cwrDone" /\ cwrStatus' = "returned"
                   /\ cwrResult' = [success |-> FALSE, strategy |-> "none"])]_vars

C16_Witness ==
    /\ Len(attemptLog) = 10
    /\ \A k \in 1..10 : attemptLog[k].outcome = "throw"
    /\ waits = 1
    /\ cwrStatus = "returned"
    /\ cwrResult = [success |-> FALSE, strategy |-> "none"]

MaxSide == 2      \* largest width and height of the reference element

\* parseFloat of the computed opacity values of the model, in tenths
parseFloat(o) == CASE o = "0" -> 0 [] o = "0.5" -> 5 [] o = "1" -> 10

\* Elements the reference selector may match. offsetParent stands for
\* el.offsetParent !== null; x, y, width, height for getBoundingClientRect.
\* An element with display none has no offsetParent and an all-zero rect.
RefElements ==
    {e \in [display : {"block", "none"}, visibility : {"visible", "hidden"},
            opacity : {"0", "0.5", "1"}, offsetParent : BOOLEAN,
            x : {0, 10}, y : {0, 20}, width : 0..MaxSide, height : 0..MaxSide] :
        IF e.display = "none"
          THEN ~e.offsetParent /\ e.x = 0 /\ e.y = 0 /\ e.width = 0 /\ e.height = 0
          ELSE e.y = 20}

Offsets == {-5, 0, 7}

\* the isVisible field computed inside page.evaluate
isVisible(e) ==
    /\ e.offsetParent
    /\ e.display # "none"
    /\ e.visibility # "hidden"
    /\ parseFloat(e.opacity) > 0

\* the object page.evaluate returns for a matched element
Descriptor(e) ==
    [boundingBox |-> [x |-> e.x, y |-> e.y, width |-> e.width, height |-> e.height],
     offsetParent |-> e.offsetParent,
     computedStyle |-> [display |-> e.display, visibility |-> e.visibility,
                        opacity |-> e.opacity],
     isVisible |-> isVisible(e)]

\* inspectDetailed without the check of a null evaluate result
inspectDetailedNoNullCheck(el, b) ==
    IF b # "ok"
      THEN [success |-> FALSE, details |-> <<>>, message |-> "Inspect detailed failed"]
      ELSE [success |-> TRUE,
            details |-> IF el = <<>> THEN <<>> ELSE <<Descriptor(el[1])>>,
            message |-> "Successfully inspected element"]

\* server inspectDetailed: details is <<>> for null
inspectDetailed(el, b) ==
    IF b # "ok"
      THEN [success |-> FALSE, details |-> <<>>, message |-> "Inspect detailed failed"]
    ELSE IF el = <<>>
      THEN [success |-> FALSE, details |-> <<>>, message |-> "Element not found"]
    ELSE [success |-> TRUE, details |-> <<Descriptor(el[1])>>,
          message |-> "Successfully inspected element"]

\* server inspect
inspect(el, b) ==
    IF b # "ok" \/ el = <<>>
      THEN [success |-> FALSE, html |-> "", attributes |-> {}]
      ELSE [success |-> TRUE, html |-> "outerHTML", attributes |-> {"id"}]

\* outcome of a helper call: an exception, or a returned value
Thrown == [thrown |-> TRUE, value |-> NoValue]
Returned(v) == [thrown |-> FALSE, value |-> v]

\* helper inspectElement: no try block at all
inspectElement(w, el, b) ==
    IF w # "live" THEN Thrown ELSE Returned(inspect(el, b))

\* helper inspectElementDetailed: the client check is outside the try block
inspectElementDetailed(w, el, b) ==
    IF w = "uninit" THEN Thrown
    ELSE IF w = "down"
      THEN Returned([success |-> FALSE, details |-> <<>>,
                     message |-> "Failed to inspect element"])
    ELSE LET parsed == inspectDetailed(el, b) IN
           Returned([success |-> parsed.success, details |-> parsed.details,
                     message |-> parsed.message])

\* helper getElementPosition: position is <<>> for null
getElementPosition(w, el, b) ==
    IF w = "uninit" THEN Thrown
    ELSE LET result == inspectElementDetailed(w, el, b) IN
           IF result.thrown \/ ~result.value.success \/ result.value.details = <<>>
             THEN Returned([success |-> FALSE, position |-> <<>>,
                            message |-> "Failed to get element position"])
             ELSE Returned([success |-> TRUE,
                            position |-> <<result.value.details[1].boundingBox>>,
                            message |-> "Got position"])

\* Round truncating the half
RoundDown(twice) == twice \div 2

\* Math.round(twice / 2): halves round towards plus infinity
Round(twice) == (twice + 1) \div 2

\* helper calculateRelativeCoordinates: the whole body is in a try block
calculateRelativeCoordinates(w, el, b, ox, oy, uc) ==
    LET posResult == getElementPosition(w, el, b) IN
      IF posResult.thrown
        THEN [success |-> FALSE, x |-> 0, y |-> 0,
              message |-> "Failed to calculate coordinates"]
      ELSE IF ~posResult.value.success \/ posResult.value.position = <<>>
        THEN [success |-> FALSE, x |-> 0, y |-> 0,
              message |-> "Failed to get base element position"]
      ELSE LET box == posResult.value.position[1]
               twiceX == 2 * box.x + (IF uc THEN box.width ELSE 0) + 2 * ox
               twiceY == 2 * box.y + (IF uc THEN box.height ELSE 0) + 2 * oy
           IN [success |-> TRUE, x |-> Round(twiceX), y |-> Round(twiceY),
               message |-> "Calculated coordinates"]

\* helper clickAtCoordinates over server clickAtCoordinates
clickAtCoordinates(w, mouseOk) ==
    IF w = "uninit" THEN Thrown
    ELSE IF w = "down"
      THEN Returned([success |-> FALSE, message |-> "Failed to click at coordinates"])
    ELSE IF mouseOk
      THEN Returned([success |-> TRUE, message |-> "Successfully clicked at coordinates"])
    ELSE Returned([success |-> FALSE, message |-> "Click at coordinates failed"])

\* AfterCoords ignoring coordsResult.success
AfterCoordsAlwaysClick(coords) == "click"

\* clickRelativeToElement after calculateRelativeCoordinates
AfterCoords(coords) == IF ~coords.success THEN "return" ELSE "click"

\* AfterInspect with an evaluate callback that scrolls the element
AfterInspectScrolled(el) ==
    IF el = <<>> THEN el
    ELSE <<[display |-> el[1].display, visibility |-> el[1].visibility,
            opacity |-> el[1].opacity, offsetParent |-> el[1].offsetParent,
            x |-> el[1].x, y |-> 0, width |-> el[1].width, height |-> el[1].height]>>

\* the matched element after the evaluate callback ran: the callback only
\* reads properties of the element
AfterInspect(el) == el

\* inspectElement(world, selector) or inspectElementDetailed(world, selector),
\* called once and then once more on the same selector
InspectCall ==
    /\ rpc \in {"start", "done"}
    /\ rCalls < 2
    /\ rStatus # "thrown"
    /\ rop \in {"inspectElement", "inspectElementDetailed"}
    /\ rCalls' = rCalls + 1
    /\ rPrev' = rResult
    /\ refEl' = IF world = "live" /\ browser = "ok" THEN AfterInspect(refEl) ELSE refEl
    /\ LET r == IF rop = "inspectElement"
                  THEN inspectElement(world, refEl, browser)
                  ELSE inspectElementDetailed(world, refEl, browser)
       IN /\ rStatus' = IF r.thrown THEN "thrown" ELSE "returned"
          /\ rResult' = r.value
    /\ rpc' = "done"
    /\ UNCHANGED <<rop, offsetX, offsetY, useCenter, coordsResult, coordClicks>>
    /\ UNCHANGED <<world, browser, element, containerVisible, resolverVars,
                   selectVars, navVars, callVars, serverVars, hookVars>>

\* clickRelativeToElement: await calculateRelativeCoordinates(...); the
\* session may close before the next await
RelCalc ==
    /\ rpc = "start"
    /\ rop = "clickRelativeToElement"
    /\ coordsResult' = calculateRelativeCoordinates(world, refEl, browser,
                                                     offsetX, offsetY, useCenter)
    /\ world' \in (IF world = "live" THEN {"live", "down"} ELSE {world})
    /\ rpc' = "coords"
    /\ UNCHANGED <<refEl, rop, offsetX, offsetY, useCenter, coordClicks, rStatus, rResult,
                   rCalls, rPrev>>
    /\ UNCHANGED <<browser, element, containerVisible, resolverVars,
                   selectVars, navVars, callVars, serverVars, hookVars>>

\* clickRelativeToElement: the early return, or clickAtCoordinates
RelClick ==
    /\ rpc = "coords"
    /\ IF AfterCoords(coordsResult) = "return"
         THEN /\ rStatus' = "returned"
              /\ rResult' = [success |-> FALSE, message |-> coordsResult.message,
                             coordinates |-> [x |-> 0, y |-> 0]]
              /\ UNCHANGED coordClicks
         ELSE \E mouseOk \in BOOLEAN :
                LET c == clickAtCoordinates(world, mouseOk) IN
                  /\ coordClicks' = IF world = "uninit" THEN coordClicks
                                    ELSE Append(coordClicks,
                                           [x |-> coordsResult.x, y |-> coordsResult.y])
                  /\ rStatus' = IF c.thrown THEN "thrown" ELSE "returned"
                  /\ rResult' = IF c.thrown THEN NoValue
                                ELSE [success |-> c.value.success,
                                      message |-> c.value.message,
                                      coordinates |-> [x |-> coordsResult.x,
                                                       y |-> coordsResult.y]]
    /\ rpc' = "done"
    /\ UNCHANGED <<refEl, rop, offsetX, offsetY, useCenter, coordsResult, rCalls, rPrev>>
    /\ UNCHANGED <<world, browser, element, containerVisible, resolverVars,
                   selectVars, navVars, callVars, serverVars, hookVars>>

InitInspect ==
    /\ world \in Worlds
    /\ browser \in {"ok", "crashed"}
    /\ element = "absent"
    /\ containerVisible = FALSE
    /\ ResolverIdle
    /\ ServerIdle
    /\ HookIdle
    /\ SelectIdle
    /\ NavIdle
    /\ CallIdle
    /\ refEl \in {<<>>} \cup {<<e>> : e \in RefElements}
    /\ \/ /\ rop \in {"inspectElement", "inspectElementDetailed"}
          /\ offsetX = 0
          /\ offsetY = 0
          /\ useCenter = TRUE
       \/ /\ rop = "clickRelativeToElement"
          /\ offsetX \in Offsets
          /\ offsetY \in Offsets
          /\ useCenter \in BOOLEAN
    /\ rpc = "start"
    /\ coordsResult = NoValue
    /\ coordClicks = <<>>
    /\ rStatus = "running"
    /\ rResult = NoValue
    /\ rCalls = 0
    /\ rPrev = NoValue

NextInspect == InspectCall \/ RelCalc \/ RelClick

SpecInspect == InitInspect /\ [][NextInspect]_vars

C14_FailsClosed ==
    (rop = "clickRelativeToElement" /\ rpc = "done"
       /\ (refEl = <<>> \/ world0 # "live" \/ browser # "ok")) =>
        /\ coordClicks = <<>>
        /\ rStatus = "returned"
        /\ ~rResult.success
        /\ rResult.message # ""

C14_Witness ==
    /\ rop = "clickRelativeToElement"
    /\ rpc = "done"
    /\ refEl = <<>>
    /\ world = "live"
    /\ browser = "ok"
    /\ coordClicks = <<>>
    /\ rResult = [success |-> FALSE, message |-> "Failed to get base element position",
                  coordinates |-> [x |-> 0, y |-> 0]]

(***************************************************************************)
(* C20: inspecting a selector that matches no element, with the provider   *)
(* and the browser available, returns without throwing: success is false   *)
(* and there is no descriptor (details null with the not-found message,    *)
(* or empty html and attributes).                                          *)
(***************************************************************************)
C20_MissingElementNotFound ==
    (rpc = "done" /\ refEl = <<>> /\ world = "live" /\ browser = "ok") =>
        /\ rop = "inspectElementDetailed" =>
              /\ rStatus = "returned"
              /\ rResult = [success |-> FALSE, details |-> <<>>,
                            message |-> "Element not found"]
        /\ rop = "inspectElement" =>
              /\ rStatus = "returned"
              /\ rResult = [success |-> FALSE, html |-> "", attributes |-> {}]

C20_Witness ==
    /\ rpc = "done"
    /\ rop = "inspectElementDetailed"
    /\ refEl = <<>>
    /\ world = "live"
    /\ browser = "ok"
    /\ rStatus = "returned"
    /\ ~rResult.success
    /\ rResult.details = <<>>

(***************************************************************************)
(* navigateAndWaitForElement and waitForSelector                           *)
(***************************************************************************)
MaxPolls == 3               \* longest supplied timeout, in poll intervals

PollInterval == 100         \* setTimeout(resolve, 100) between two polls
DefaultNavTimeout == 5000   \* navigateAndWaitForElement(..., timeout = 5000)
DefaultWaitTimeout == 15000 \* server waitForSelector(selector, timeoutMs = 15000)

\* helper navigateTo over server navigate: no try block in the helper
navigateTo(w, b) ==
    IF w # "live" THEN Thrown
    ELSE IF b # "ok"
      THEN Returned([success |-> FALSE, message |-> "Navigation failed"])
    ELSE Returned([success |-> TRUE, message |-> "Successfully navigated"])

\* helper queryElements over server queryElements, reduced to
\* count > 0 && elements.some(el => el.visible); no try block in the helper
queryVisible(w, b, e) ==
    IF w # "live" THEN Thrown
    ELSE Returned([success |-> (b = "ok" /\ e = "visible")])

\* const navResult = await navigateTo(world, url); if (navResult.success) ...
NavStart ==
    /\ nop = "navigateAndWaitForElement"
    /\ npc = "start"
    /\ LET navResult == navigateTo(world, browser) IN
         IF navResult.thrown
           THEN /\ nStatus' = "thrown"
                /\ npc' = "done"
                /\ UNCHANGED nResult
           ELSE /\ nResult' = navResult.value
                /\ IF navResult.value.success
                     THEN npc' = "poll" /\ UNCHANGED nStatus
                     ELSE npc' = "done" /\ nStatus' = "returned"
    /\ elapsed' = 0
    /\ UNCHANGED <<nop, timeout, polls, sawVisible>>
    /\ UNCHANGED <<world, browser, element, containerVisible, resolverVars,
                   selectVars, inspectVars, callVars, serverVars, hookVars>>

\* one evaluation of the while condition and, when it holds, one body:
\* query, break on a visible element, else sleep; then return navResult
NavPoll ==
    /\ nop = "navigateAndWaitForElement"
    /\ npc = "poll"
    /\ IF ~(elapsed < timeout)
         THEN /\ npc' = "done"
              /\ nStatus' = "returned"
              /\ UNCHANGED <<elapsed, polls, sawVisible, world, element>>
         ELSE LET queryResult == queryVisible(world, browser, element) IN
                /\ polls' = polls + 1
                /\ IF queryResult.thrown
                     THEN /\ npc' = "done"
                          /\ nStatus' = "thrown"
                          /\ UNCHANGED <<elapsed, sawVisible, world, element>>
                     ELSE IF queryResult.value.success
                       THEN /\ sawVisible' = TRUE
                            /\ npc' = "done"
                            /\ nStatus' = "returned"
                            /\ UNCHANGED <<elapsed, world, element>>
                       ELSE /\ elapsed' = elapsed + PollInterval
                            /\ element' \in Elements
                            /\ world' \in {world, "down"}
                            /\ UNCHANGED <<npc, nStatus, sawVisible>>
    /\ UNCHANGED <<nop, timeout, nResult>>
    /\ UNCHANGED <<browser, containerVisible, resolverVars,
                   selectVars, inspectVars, callVars, serverVars, hookVars>>

\* helper waitForSelector over server waitForSelector: page.waitForSelector
\* resolves when the element is visible within the timeout, else rejects
WaitForSelectorCall ==
    /\ nop = "waitForSelector"
    /\ npc = "start"
    /\ IF world # "live"
         THEN /\ nStatus' = "thrown"
              /\ UNCHANGED <<nResult, elapsed, sawVisible, element>>
         ELSE /\ nStatus' = "returned"
              /\ IF browser # "ok"
                   THEN /\ nResult' = [success |-> FALSE,
                                       message |-> "waitForSelector failed"]
                        /\ UNCHANGED <<elapsed, sawVisible, element>>
                   ELSE \E appears \in (IF element = "visible"
                                          THEN {TRUE} ELSE BOOLEAN) :
                          IF appears
                            THEN /\ element' = "visible"
                                 /\ sawVisible' = TRUE
                                 /\ nResult' = [success |-> TRUE,
                                                message |-> "Selector became visible"]
                                 /\ UNCHANGED elapsed
                            ELSE /\ elapsed' = timeout
                                 /\ nResult' = [success |-> FALSE,
                                                message |-> "waitForSelector failed"]
                                 /\ UNCHANGED <<sawVisible, element>>
    /\ npc' = "done"
    /\ UNCHANGED <<nop, timeout, polls>>
    /\ UNCHANGED <<world, browser, containerVisible, resolverVars,
                   selectVars, inspectVars, callVars, serverVars, hookVars>>

InitNav ==
    /\ world \in Worlds
    /\ browser \in {"ok", "crashed"}
    /\ element \in Elements
    /\ containerVisible = TRUE
    /\ ResolverIdle
    /\ ServerIdle
    /\ HookIdle
    /\ SelectIdle
    /\ InspectIdle
    /\ CallIdle
    /\ \/ /\ nop = "navigateAndWaitForElement"
          /\ timeout \in {k * PollInterval : k \in 0..MaxPolls} \cup {DefaultNavTimeout}
       \/ /\ nop = "waitForSelector"
          /\ timeout \in {k * PollInterval : k \in 0..MaxPolls} \cup {DefaultWaitTimeout}
    /\ npc = "start"
    /\ elapsed = 0
    /\ polls = 0
    /\ sawVisible = FALSE
    /\ nStatus = "running"
    /\ nResult = NoValue

NextNav == NavStart \/ NavPoll \/ WaitForSelectorCall

SpecNav == InitNav /\ [][NextNav]_vars

(***************************************************************************)
(* C18: a wait that ran out of its timeout while the awaited element was   *)
(* never visible returns a failure result.                                 *)
(***************************************************************************)
C18_TimeoutIsFailure ==
    (npc = "done" /\ nStatus = "returned" /\ ~sawVisible /\ element # "visible"
       /\ timeout > 0 /\ elapsed >= timeout) =>
        ~nResult.success

(***************************************************************************)
(* The CallToolRequest handler of the server, and the caller's parse       *)
(***************************************************************************)
KnownTools == {"click", "queryElements", "inspect", "evaluateScript",
               "waitForSelector", "setFeatureName"}
ToolNames == KnownTools \cup {"noSuchTool", "type"}

\* request.params.arguments: every field present, an empty object, undefined
ArgKinds == {"full", "empty", "missing"}

\* what the tool function of a known tool returns (each has its own try
\* block; an undefined selector makes the page operation throw inside it)
CallTool(name, args, b, e) ==
    LET failed == b # "ok" \/ args = "empty" IN
    CASE name = "click" ->
           IF failed \/ e # "visible"
             THEN [success |-> FALSE, message |-> "Click failed"]
             ELSE [success |-> TRUE, message |-> "Successfully clicked element"]
      [] name = "waitForSelector" ->
           IF failed \/ e # "visible"
             THEN [success |-> FALSE, message |-> "waitForSelector failed"]
             ELSE [success |-> TRUE, message |-> "Selector became visible"]
      [] name = "queryElements" ->
           IF failed
             THEN [success |-> FALSE, count |-> 0, elements |-> <<>>]
             ELSE [success |-> TRUE, count |-> IF e = "absent" THEN 0 ELSE 1,
                   elements |-> IF e = "absent" THEN <<>>
                                ELSE <<[visible |-> (e = "visible")]>>]
      [] name = "inspect" ->
           inspect(IF e = "absent" \/ args = "empty" THEN <<>> ELSE <<e>>, b)
      [] name = "evaluateScript" ->
           IF b # "ok"
             THEN [success |-> FALSE, result |-> "null", error |-> "message"]
             ELSE [success |-> TRUE, result |-> "value"]
      [] name = "setFeatureName" ->
           [success |-> TRUE, message |-> "Feature name set"]

\* JSON.stringify(result, null, 2), and the text of the catch block
Stringify(v) == [format |-> "json", value |-> v]
ErrorText(m) == [format |-> "plain", value |-> m]

\* server.setRequestHandler(CallToolRequestSchema, ...): McpError and any
\* other exception of the try block are answered as 'Error: ...' text
Handler(name, args, b, e) ==
    IF args = "missing"
      THEN [isError |-> TRUE, text |-> ErrorText("Error: Arguments are required")]
    ELSE IF name \notin KnownTools
      THEN [isError |-> TRUE, text |-> ErrorText("Error: Unknown tool")]
    ELSE IF name = "setFeatureName" /\ args = "empty"
      THEN [isError |-> TRUE, text |-> ErrorText("Error: Cannot read properties of undefined")]
    ELSE [isError |-> FALSE, text |-> Stringify(CallTool(name, args, b, e))]

\* JSON.parse(content[0].text): a SyntaxError for text that is not JSON
JsonParse(text) ==
    IF text.format = "json" THEN Returned(text.value) ELSE Thrown

\* the server answers the request
HandleCall ==
    /\ tpc = "request"
    /\ response' = Handler(tool, argsGiven, browser, element)
    /\ tpc' = "answered"
    /\ UNCHANGED <<tool, argsGiven, tStatus, tResult>>
    /\ UNCHANGED <<world, browser, element, containerVisible, resolverVars,
                   selectVars, inspectVars, navVars, serverVars, hookVars>>

\* typeText reads the answer of its 'type' request: text that does not
\* parse is taken as success, else success is parsed.success !== false
TypeTextParse ==
    /\ tpc = "answered"
    /\ tool = "type"
    /\ LET parsed == JsonParse(response.text) IN
         /\ tStatus' = "returned"
         /\ tResult' = IF parsed.thrown
                         THEN [success |-> TRUE, message |-> "Typed text"]
                         ELSE [success |-> parsed.value.success,
                               message |-> "Typed text"]
    /\ tpc' = "done"
    /\ UNCHANGED <<tool, argsGiven, response>>
    /\ UNCHANGED <<world, browser, element, containerVisible, resolverVars,
                   selectVars, inspectVars, navVars, serverVars, hookVars>>

\* the caller reads the answer, as every helper without a try block does
CallerParse ==
    /\ tpc = "answered"
    /\ tool # "type"
    /\ LET parsed == JsonParse(response.text) IN
         /\ tStatus' = IF parsed.thrown THEN "thrown" ELSE "returned"
         /\ tResult' = parsed.value
    /\ tpc' = "done"
    /\ UNCHANGED <<tool, argsGiven, response>>
    /\ UNCHANGED <<world, browser, element, containerVisible, resolverVars,
                   selectVars, inspectVars, navVars, serverVars, hookVars>>

InitCall ==
    /\ world = "live"
    /\ browser \in {"ok", "crashed"}
    /\ element \in Elements
    /\ containerVisible = TRUE
    /\ ResolverIdle
    /\ ServerIdle
    /\ HookIdle
    /\ SelectIdle
    /\ InspectIdle
    /\ NavIdle
    /\ tool \in ToolNames
    /\ argsGiven \in ArgKinds
    /\ tpc = "request"
    /\ response = NoValue
    /\ tStatus = "running"
    /\ tResult = NoValue

NextCall == HandleCall \/ CallerParse \/ TypeTextParse

SpecCall == InitCall /\ [][NextCall]_vars

(***************************************************************************)
(* C19: a request naming an unknown tool, or carrying no arguments, is     *)
(* answered with an object holding success false and a message, and the    *)
(* caller ends without an exception.                                       *)
(***************************************************************************)
C19_UniformResult ==
    (tpc = "done" /\ (tool \notin KnownTools \/ argsGiven = "missing")) =>
        /\ tStatus = "returned"
        /\ {"success", "message"} \subseteq DOMAIN tResult
        /\ ~tResult.success
        /\ ~response.isError

(***************************************************************************)
(* C22: within one clickWithRetry call at most one strategy attempt is in  *)
(* flight at any moment; an attempt starts only when none is pending.      *)
(***************************************************************************)
C22_OneAttemptInFlight ==
    /\ []( inFlight <= 1 )
    /\ [][inFlight' > inFlight => inFlight = 0]_vars

C22_Witness ==
    /\ inFlight = 1
    /\ Len(attemptLog) = 6
    /\ attemptLog[6].outcome = "throw"

(***************************************************************************)
(* C25: selectDateRangeOption returns success only when a click strategy   *)
(* reported success in that call: never success together with "none".      *)
(***************************************************************************)
C25_SuccessNamesStrategy ==
    (caller = "dateRange" /\ drStatus = "returned" /\ drResult.success) =>
        /\ drResult.strategy # "none"
        /\ cwrResult.success

(***************************************************************************)
(* C23: twice the exact target of a relative click: the origin of the      *)
(* measured box plus the offsets, plus half the size when useCenter.       *)
(***************************************************************************)
Measurable ==
    /\ rop = "clickRelativeToElement"
    /\ rpc = "done"
    /\ refEl # <<>>
    /\ world0 = "live"
    /\ browser = "ok"

TwiceExactX == 2 * refEl[1].x + (IF useCenter THEN refEl[1].width ELSE 0) + 2 * offsetX
TwiceExactY == 2 * refEl[1].y + (IF useCenter THEN refEl[1].height ELSE 0) + 2 * offsetY

C26_SelectAfterOpen ==
    (step \in {"index", "text"} /\ events # <<>>) => opened = "clicked"

(***************************************************************************)
(* C27: typeText returns success only if the provider answered its request *)
(* with a success object: an error reply is never reported as success.     *)
(***************************************************************************)
C27_TypeSuccessIsReal ==
    (tool = "type" /\ tpc = "done" /\ tResult.success) =>
        /\ ~response.isError
        /\ response.text.format = "json"
        /\ response.text.value.success

(***************************************************************************)
(* The server's browser management: initBrowser, closeBrowser, the         *)
(* shutdown handlers, setFeatureName and screenshot. Tool calls are async  *)
(* handlers: two of them may interleave at every await.                    *)
(***************************************************************************)
MaxCalls == 3        \* calls and signals the server receives
MaxLaunches == 2     \* browsers chromium.launch can start

FeatureNames == {"login"}

SetTask(t, op, at, target) ==
    [sTask EXCEPT ![t] = [op |-> op, pc |-> at, target |-> target]]

\* screenshot after initBrowser returned pg: path.join(currentRunDirectory!, ...)
\* and page.screenshot throw on null and on a page whose browser is gone
ScreenshotResult(pg, dir, running) ==
    IF pg = 0 \/ dir = "null" \/ pg \notin running
      THEN [success |-> FALSE, path |-> ""]
      ELSE [success |-> TRUE, path |-> dir]

\* case 'setFeatureName': featureName = args.name...
SrvSetFeatureName(t) ==
    /\ ~sExited
    /\ sTask[t].pc = "idle"
    /\ sCalls < MaxCalls
    /\ sCalls' = sCalls + 1
    /\ sFeature' \in FeatureNames
    /\ UNCHANGED <<sBrowser, sContext, sPage, sRunDir, sRunning, sLaunched, sTask,
                   sReturns, sShots, sExited>>
    /\ UNCHANGED <<clickVars, selectVars, inspectVars, navVars, callVars,
                   browser, hookVars>>

\* a screenshot or closeBrowserSession request arrives, or a shutdown signal
SrvBegin(t) ==
    /\ ~sExited
    /\ sTask[t].pc = "idle"
    /\ sCalls < MaxCalls
    /\ sCalls' = sCalls + 1
    /\ \E op \in {"screenshot", "closeBrowserSession", "shutdown"} :
         sTask' = SetTask(t, op, "entered", 0)
    /\ UNCHANGED <<sBrowser, sContext, sPage, sFeature, sRunDir, sRunning, sLaunched,
                   sReturns, sShots, sExited>>
    /\ UNCHANGED <<clickVars, selectVars, inspectVars, navVars, callVars,
                   browser, hookVars>>

\* initBrowser: if (!browser) ... else return page!
InitCheck(t) ==
    /\ ~sExited
    /\ sTask[t].pc = "entered"
    /\ sTask[t].op = "screenshot"
    /\ IF sBrowser = 0
         THEN /\ sTask' = SetTask(t, "screenshot", "launch", 0)
              /\ UNCHANGED <<sReturns, sShots>>
         ELSE /\ sReturns' = Append(sReturns, [page |-> sPage, browser |-> sBrowser])
              /\ sShots' = Append(sShots, ScreenshotResult(sPage, sRunDir, sRunning))
              /\ sTask' = SetTask(t, "none", "idle", 0)
    /\ UNCHANGED <<sBrowser, sContext, sPage, sFeature, sRunDir, sRunning, sLaunched,
                   sCalls, sExited>>
    /\ UNCHANGED <<clickVars, selectVars, inspectVars, navVars, callVars,
                   browser, hookVars>>

\* browser = await chromium.launch(...), or the rejection rethrown by the
\* catch block into screenshot's catch block
InitLaunch(t) ==
    /\ ~sExited
    /\ sTask[t].pc = "launch"
    /\ \E ok \in (IF sLaunched < MaxLaunches THEN BOOLEAN ELSE {FALSE}) :
         IF ok
           THEN /\ sLaunched' = sLaunched + 1
                /\ sBrowser' = sLaunched + 1
                /\ sRunning' = sRunning \cup {sLaunched + 1}
                /\ sTask' = SetTask(t, "screenshot", "context", 0)
                /\ UNCHANGED sShots
           ELSE /\ sShots' = Append(sShots, [success |-> FALSE, path |-> ""])
                /\ sTask' = SetTask(t, "none", "idle", 0)
                /\ UNCHANGED <<sLaunched, sBrowser, sRunning>>
    /\ UNCHANGED <<sContext, sPage, sFeature, sRunDir, sCalls, sReturns, sExited>>
    /\ UNCHANGED <<clickVars, selectVars, inspectVars, navVars, callVars,
                   browser, hookVars>>

\* context = await browser.newContext(...): browser is the module variable
InitContext(t) ==
    /\ ~sExited
    /\ sTask[t].pc = "context"
    /\ \E ok \in (IF sBrowser \in sRunning THEN BOOLEAN ELSE {FALSE}) :
         IF ok
           THEN /\ sContext' = sBrowser
                /\ sTask' = SetTask(t, "screenshot", "page", 0)
                /\ UNCHANGED sShots
           ELSE /\ sShots' = Append(sShots, [success |-> FALSE, path |-> ""])
                /\ sTask' = SetTask(t, "none", "idle", 0)
                /\ UNCHANGED sContext
    /\ UNCHANGED <<sBrowser, sPage, sFeature, sRunDir, sRunning, sLaunched, sCalls,
                   sReturns, sExited>>
    /\ UNCHANGED <<clickVars, selectVars, inspectVars, navVars, callVars,
                   browser, hookVars>>

\* page = await context.newPage(); currentRunDirectory = ...; return page!
InitNewPage(t) ==
    /\ ~sExited
    /\ sTask[t].pc = "page"
    /\ \E ok \in (IF sContext \in sRunning THEN BOOLEAN ELSE {FALSE}) :
         IF ok
           THEN /\ sPage' = sContext
                /\ sRunDir' = sFeature
                /\ sReturns' = Append(sReturns, [page |-> sContext, browser |-> sBrowser])
                /\ sShots' = Append(sShots, ScreenshotResult(sContext, sFeature, sRunning))
           ELSE /\ sShots' = Append(sShots, [success |-> FALSE, path |-> ""])
                /\ UNCHANGED <<sPage, sRunDir, sReturns>>
    /\ sTask' = SetTask(t, "none", "idle", 0)
    /\ UNCHANGED <<sBrowser, sContext, sFeature, sRunning, sLaunched, sCalls, sExited>>
    /\ UNCHANGED <<clickVars, selectVars, inspectVars, navVars, callVars,
                   browser, hookVars>>

\* closeBrowser: if (browser) { await Promise.race([browser.close(), ...]) }
CloseCheck(t) ==
    /\ ~sExited
    /\ sTask[t].pc = "entered"
    /\ sTask[t].op \in {"closeBrowserSession", "shutdown"}
    /\ IF sBrowser = 0
         THEN /\ sTask' = SetTask(t, "none", "idle", 0)
              /\ sExited' = (sTask[t].op = "shutdown")
         ELSE /\ sTask' = SetTask(t, sTask[t].op, "closing", sBrowser)
              /\ UNCHANGED sExited
    /\ UNCHANGED <<sBrowser, sContext, sPage, sFeature, sRunDir, sRunning, sLaunched,
                   sCalls, sReturns, sShots>>
    /\ UNCHANGED <<clickVars, selectVars, inspectVars, navVars, callVars,
                   browser, hookVars>>

\* the race settles (the browser closed, or the 5 s timeout or an error
\* won); finally { browser = null; ... }; process.exit(0) after a signal
CloseDone(t) ==
    /\ ~sExited
    /\ sTask[t].pc = "closing"
    /\ \E closed \in BOOLEAN :
         sRunning' = IF closed THEN sRunning \ {sTask[t].target} ELSE sRunning
    /\ sBrowser' = 0
    /\ sContext' = 0
    /\ sPage' = 0
    /\ sRunDir' = "null"
    /\ sFeature' = DefaultFeatureName
    /\ sExited' = (sTask[t].op = "shutdown")
    /\ sTask' = SetTask(t, "none", "idle", 0)
    /\ UNCHANGED <<sLaunched, sCalls, sReturns, sShots>>
    /\ UNCHANGED <<clickVars, selectVars, inspectVars, navVars, callVars,
                   browser, hookVars>>

InitServer ==
    /\ world = "live"
    /\ browser = "ok"
    /\ element = "absent"
    /\ containerVisible = FALSE
    /\ ResolverIdle
    /\ SelectIdle
    /\ InspectIdle
    /\ NavIdle
    /\ CallIdle
    /\ ServerIdle
    /\ HookIdle

NextServer ==
    \E t \in Tasks :
       \/ SrvSetFeatureName(t)
       \/ SrvBegin(t)
       \/ InitCheck(t)
       \/ InitLaunch(t)
       \/ InitContext(t)
       \/ InitNewPage(t)
       \/ CloseCheck(t)
       \/ CloseDone(t)

SpecServer == InitServer /\ [][NextServer]_vars

(***************************************************************************)
(* C21: the outcome of a call depends only on its arguments and the page:  *)
(* a screenshot is saved under the same directory whatever calls were      *)
(* made before it.                                                         *)
(***************************************************************************)
C21_StatelessPerCall ==
    \A k \in 1..Len(sShots) :
        sShots[k].success => sShots[k].path = DefaultFeatureName

(***************************************************************************)
(* C28: whenever initBrowser returns normally it returns a page that is    *)
(* not null and belongs to the browser referenced at that moment.          *)
(***************************************************************************)
C28_PageNeverNull ==
    \A k \in 1..Len(sReturns) :
        /\ sReturns[k].page # 0
        /\ sReturns[k].page = sReturns[k].browser

(***************************************************************************)
(* C29: every browser that is running is the one the browser variable      *)
(* references; stated here for the moments when no call is in progress.    *)
(***************************************************************************)
C29_NoLeakedBrowser ==
    (\A t \in Tasks : sTask[t].pc = "idle") =>
        \A b \in sRunning : sBrowser = b

(***************************************************************************)
(* The After hook of a scenario: failure artefacts, MCP client cleanup,    *)
(* page and context close.                                                 *)
(***************************************************************************)
ClientNames == {"github", "specification", "testExecution", "playwright"}
ClientCloseTimeout == 3000
PlaywrightCloseTimeout == 10000

CloseTimeout(c) ==
    IF c = "playwright" THEN PlaywrightCloseTimeout ELSE ClientCloseTimeout

\* if (result) { ...; if (result.status !== Status.PASSED) { screenshot;
\* tracing.stop } }: both awaits stand outside any try block
HookArtefacts ==
    /\ hPc = "start"
    /\ IF hResult = "failed" /\ hPage
         THEN \E shot \in {"ok", "throw"}, trace \in {"ok", "throw"} :
                IF shot = "throw" \/ trace = "throw"
                  THEN hPc' = "done" /\ hStatus' = "thrown"
                  ELSE hPc' = "clients" /\ hStatus' = hStatus
         ELSE hPc' = "clients" /\ hStatus' = hStatus
    /\ UNCHANGED <<hResult, hClients, hPage, hAttempted, hPageClose, hContextClose>>
    /\ UNCHANGED <<clickVars, selectVars, inspectVars, navVars, callVars, browser,
                   serverVars>>

\* Promise.race([client.close(), timeout]).catch(warn) for a client present
HookCloseClient ==
    /\ hPc = "clients"
    /\ \E c \in hClients \ {a.client : a \in hAttempted} :
         \E o \in {"closed", "failed", "timeout"} :
            hAttempted' = hAttempted \cup
                {[client |-> c, outcome |-> o, within |-> CloseTimeout(c)]}
    /\ UNCHANGED <<hResult, hClients, hPage, hPc, hPageClose, hContextClose, hStatus>>
    /\ UNCHANGED <<clickVars, selectVars, inspectVars, navVars, callVars, browser,
                   serverVars>>

\* await Promise.all(closePromises)
HookClientsSettled ==
    /\ hPc = "clients"
    /\ {a.client : a \in hAttempted} = hClients
    /\ hPc' = "page"
    /\ UNCHANGED <<hResult, hClients, hPage, hAttempted, hPageClose, hContextClose,
                   hStatus>>
    /\ UNCHANGED <<clickVars, selectVars, inspectVars, navVars, callVars, browser,
                   serverVars>>

\* await this.page?.close()
HookClosePage ==
    /\ hPc = "page"
    /\ IF hPage
         THEN \E o \in {"closed", "throw"} :
                /\ hPageClose' = o
                /\ IF o = "throw"
                     THEN hPc' = "done" /\ hStatus' = "thrown"
                     ELSE hPc' = "context" /\ hStatus' = hStatus
         ELSE hPageClose' = "absent" /\ hPc' = "context" /\ hStatus' = hStatus
    /\ UNCHANGED <<hResult, hClients, hPage, hAttempted, hContextClose>>
    /\ UNCHANGED <<clickVars, selectVars, inspectVars, navVars, callVars, browser,
                   serverVars>>

\* await this.context?.close()
HookCloseContext ==
    /\ hPc = "context"
    /\ IF hPage
         THEN \E o \in {"closed", "throw"} :
                /\ hContextClose' = o
                /\ hStatus' = IF o = "throw" THEN "thrown" ELSE "finished"
         ELSE hContextClose' = "absent" /\ hStatus' = "finished"
    /\ hPc' = "done"
    /\ UNCHANGED <<hResult, hClients, hPage, hAttempted, hPageClose>>
    /\ UNCHANGED <<clickVars, selectVars, inspectVars, navVars, callVars, browser,
                   serverVars>>

InitHook ==
    /\ world = "live"
    /\ browser = "ok"
    /\ element = "absent"
    /\ containerVisible = FALSE
    /\ ResolverIdle
    /\ SelectIdle
    /\ InspectIdle
    /\ NavIdle
    /\ CallIdle
    /\ ServerIdle
    /\ hResult \in {"none", "passed", "failed"}
    /\ hClients \in SUBSET ClientNames
    /\ hPage \in BOOLEAN
    /\ hPc = "start"
    /\ hAttempted = {}
    /\ hPageClose = "no"
    /\ hContextClose = "no"
    /\ hStatus = "running"

NextHook ==
    \/ HookArtefacts
    \/ HookCloseClient
    \/ HookClientsSettled
    \/ HookClosePage
    \/ HookCloseContext

SpecHook == InitHook /\ [][NextHook]_vars

(***************************************************************************)
(* C30: when the After hook has ended for a world holding all four MCP     *)
(* clients, whatever the scenario's result, a close was attempted on each  *)
(* client and on the page.                                                 *)
(***************************************************************************)
C30_CleanupAlwaysRuns ==
    (hPc = "done" /\ hClients = ClientNames) =>
        /\ {a.client : a \in hAttempted} = hClients
        /\ hPageClose # "no"

====
